---- MODULE Spec2Model ----
(***************************************************************************)
(* Model of src/lcd.js: an HD44780 character LCD driven over a 4-bit GPIO  *)
(* bus.  The file holds two generations of the driver.  The first          *)
(* (lines 1-305) serialises print/clear/home through asyncOps; the second  *)
(* (lines 307-531) has no queue and chains promises.  Definitions that     *)
(* model the second generation carry the suffix 2.                         *)
(*                                                                         *)
(* Reading of the source:                                                  *)
(*  - `this` inside the prototype functions denotes the Lcd instance.      *)
(*  - a pin's writeSync performs the write when it is called and returns   *)
(*    a thenable (the code chains .then on it, lines 302 and 508); a pin   *)
(*    fault is a throw from that call.                                     *)
(*  - a callback handed to tick, setTimeout or Q.delay runs in a later     *)
(*    turn of the event loop; turns are atomic, and public methods are     *)
(*    called by the program's user between turns.                          *)
(*  - a .then callback of a promise chain whose previous step has settled  *)
(*    without a timer runs in the same turn (the promise queue is drained  *)
(*    before the event loop goes on).                                      *)
(*  - timers of equal delay set in one turn expire in one turn, in the     *)
(*    order they were set.                                                 *)
(***************************************************************************)
EXTENDS Integers, Sequences, FiniteSets, TLC

(* ---------------------------- bounds ----------------------------------- *)
\* public calls the user makes, pin faults the backend raises, in a behaviour
\* that starts at construction (Spec)
MaxBootCalls == 1
MaxBootFaults == 0
\* the same in a behaviour that starts from the ready controller (SpecReady)
MaxCalls == 2
MaxFaults == 1
\* public calls in a behaviour of the queued methods alone (SpecQueue)
MaxQueueCalls == 3
\* public calls in a behaviour of the flag methods alone (SpecFlags)
MaxFlagCalls == 3
\* the display heights tried under SpecReady
ReadyRows == 2
\* longest text printed under Spec
MaxLen == 1
\* the longest text printed under SpecPrint fills the display this many times
MaxFills == 2
\* largest column and row handed to setCursor
MaxCol == 1
MaxRow == 5

(* ------------------------- program constants --------------------------- *)
ROW_OFFSETS == <<0, 64, 20, 84>>        \* __ROW_OFFSETS, indexed from 0 in the code
CLEAR_DISPLAY == 1
HOME == 2
SET_CURSOR == 128
DISPLAY_ON == 4
DISPLAY_OFF == -5                       \* ~0x04
CURSOR_ON == 2
CURSOR_OFF == -3                        \* ~0x02
BLINK_ON == 1
BLINK_OFF == -2                         \* ~0x01
SCROLL_LEFT == 24
SCROLL_RIGHT == 28
LEFT_TO_RIGHT == 2
RIGHT_TO_LEFT == -3                     \* ~0x02
AUTOSCROLL_ON == 1
AUTOSCROLL_OFF == -2                    \* ~0x01
DisplayControlDefault == 12             \* 0x0c
DisplayModeDefault == 6                 \* 0x06
FunctionSetBase == 32                   \* 0x20
FunctionSetTwoLines == 8                \* 0x08
FunctionSetLargeFont == 4               \* 0x04
FunctionSecondary == 16                 \* 0x10
FillWidth == 80                         \* characters per display fill in print
NumData == 4                            \* config.data.length: db4..db7
SettleDelay == 3                        \* ms after clear / home

(* ------------------- JavaScript integer operators ---------------------- *)
\* a & b on two's-complement integers
RECURSIVE BitAnd(_, _)
BitAnd(a, b) ==
  IF a = 0 \/ b = 0 THEN 0
  ELSE IF a = -1 THEN b
  ELSE IF b = -1 THEN a
  ELSE (a % 2) * (b % 2) + 2 * BitAnd(a \div 2, b \div 2)

\* a | b on two's-complement integers
RECURSIVE BitOr(_, _)
BitOr(a, b) ==
  IF a = 0 THEN b
  ELSE IF b = 0 THEN a
  ELSE IF a = -1 \/ b = -1 THEN -1
  ELSE (IF a % 2 = 1 \/ b % 2 = 1 THEN 1 ELSE 0) + 2 * BitOr(a \div 2, b \div 2)

\* a >> n (arithmetic shift)
Shr(a, n) == a \div (2 ^ n)

(* ------------------------------ pins ----------------------------------- *)
DataPin(i) == <<"d0", "d1", "d2", "d3">>[i + 1]
Pins == {"rs", "e"} \cup {DataPin(i) : i \in 0 .. NumData - 1}

\* A pin write is <<pin, level, by>>: by = 0 for init, the call's id otherwise.

\* _write4Bits up to and including e.writeSync(1): the part that runs in the
\* caller's turn.  The strobe's release is deferred (Q.delay(30), then E low).
Write4BitsSync(val, by) ==
  [i \in 1 .. NumData |-> <<DataPin(i - 1), BitAnd(Shr(val, i - 1), 1), by>>]
    \o << <<"e", 1, by>> >>

\* _send: RS, then both nibbles, neither waiting for the other's strobe.
SendSync(val, mode, by) ==
  << <<"rs", mode, by>> >> \o Write4BitsSync(Shr(val, 4), by) \o Write4BitsSync(val, by)

\* The writes of ws that happen when the k-th call throws (k = 0: none throws).
Cut(ws, k) == IF k = 0 THEN ws ELSE SubSeq(ws, 1, k - 1)

\* How many strobes a run of writes has raised: each schedules one release.
Raised(ws) == Cardinality({i \in 1 .. Len(ws) : ws[i][1] = "e" /\ ws[i][2] = 1})

Repeat(x, n) == [i \in 1 .. n |-> x]

(* ------------------------------ state ---------------------------------- *)
VARIABLES
  rows, largeFont,          \* config
  displayControl, displayMode,
  asyncOps,                 \* this.asyncOps: the queued operations
  tasks,                    \* callbacks pending in tick / setTimeout
  strobes,                  \* deferred E-low writes: <<by, n>> for the n set in one turn
  initPc,                   \* position of init's promise chain
  bus,                      \* history: every pin write, in order
  sent,                     \* history: every byte _send has put on the bus
  calls,                    \* history: the public calls made, in order
  faulted,                  \* history: whose pin writes have thrown
  initLog,                  \* history: what init has issued
  signals,                  \* history: callbacks called and events emitted
  thrown,                   \* history: exceptions thrown to the caller
  released,                 \* history: how often each pin was unexported
  inflight,                 \* history: operations begun and not yet completed
  completed,                \* history: operations that called back the queue, in order
  nextId,                   \* id of the next public call
  callsLeft,                \* public calls the user has yet to make
  faultsLeft                \* pin faults the backend has yet to raise

vars == <<rows, largeFont, displayControl, displayMode, asyncOps, tasks, strobes,
          initPc, bus, sent, calls, faulted, initLog, signals, thrown, released, inflight,
          completed, nextId, callsLeft, faultsLeft>>

\* constructor, lines 29-69
Init ==
  /\ rows \in 1 .. 4
  /\ largeFont \in BOOLEAN
  /\ displayControl = DisplayControlDefault
  /\ displayMode = DisplayModeDefault
  /\ asyncOps = <<>>
  /\ tasks = <<>>
  /\ strobes = <<>>
  /\ initPc = 1
  /\ bus = <<>>
  /\ sent = <<>>
  /\ calls = <<>>
  /\ faulted = <<>>
  /\ initLog = <<>>
  /\ signals = <<>>
  /\ thrown = <<>>
  /\ released = [p \in Pins |-> 0]
  /\ inflight = <<>>
  /\ completed = <<>>
  /\ nextId = 1
  /\ callsLeft = MaxBootCalls
  /\ faultsLeft = MaxBootFaults

\* The positions at which a pin fault may strike a run of n writes: none (0),
\* or the first, the middle or the last write of the run.
FaultAt(n) == IF faultsLeft > 0 THEN {0, 1, n \div 2 + 1, n} ELSE {0}

\* the strobe releases a turn has scheduled
Deferred(by, ws) == IF Raised(ws) = 0 THEN <<>> ELSE << <<by, Raised(ws)>> >>

\* _send(val, mode) called on behalf of `by`, its k-th pin write throwing:
\* lines 283-287 with _write4Bits, lines 290-305
Send(val, mode, by, k) ==
  LET ws == Cut(SendSync(val, mode, by), k)
  IN  /\ bus' = bus \o ws
      /\ strobes' = strobes \o Deferred(by, ws)
      /\ sent' = IF k = 0 THEN Append(sent, <<by, mode, val>>) ELSE sent
      /\ faultsLeft' = IF k = 0 THEN faultsLeft ELSE faultsLeft - 1
      /\ faulted' = IF k = 0 THEN faulted ELSE Append(faulted, by)

SendLen == 1 + 2 * (NumData + 1)

RemoveAt(s, i) == SubSeq(s, 1, i - 1) \o SubSeq(s, i + 1, Len(s))

(* ------------------------------- init ---------------------------------- *)
\* initPc: 1,3,5,7 wait for the delay before a wake-up nibble; 2,4,6,8 wait for
\* that nibble's strobe (init chains on _write4Bits' promise); 9 the five
\* commands; 14 waits for the settle delay; 15 ready; 0 the chain was rejected.
InitDelays == <<16, 6, 2, 2>>
InitNibbles == <<3, 3, 3, 2>>
InitFailed == 0
InitDone == 15

\* lines 85-92
DisplayFunction ==
  LET twoLines == IF rows > 1 THEN FunctionSetTwoLines ELSE 0
      font == IF rows = 1 /\ largeFont THEN FunctionSetLargeFont ELSE 0
  IN  BitOr(BitOr(FunctionSetBase, twoLines), font)

\* Q.delay(n).then(() => this._write4Bits(v)), lines 76-83
InitNibble ==
  /\ initPc \in {1, 3, 5, 7}
  /\ LET n == (initPc + 1) \div 2
         ws == Write4BitsSync(InitNibbles[n], 0)
     IN  \E k \in FaultAt(Len(ws)) :
           /\ bus' = bus \o Cut(ws, k)
           /\ faultsLeft' = IF k = 0 THEN faultsLeft ELSE faultsLeft - 1
           /\ faulted' = IF k = 0 THEN faulted ELSE Append(faulted, 0)
           /\ initPc' = IF k = 0 THEN initPc + 1 ELSE InitFailed
           /\ initLog' = initLog \o << <<"delay", InitDelays[n]>> >>
                           \o (IF k = 0 THEN << <<"nibble", InitNibbles[n]>> >> ELSE <<>>)
  /\ UNCHANGED <<sent, calls, rows, largeFont, displayControl,
                 displayMode, asyncOps, tasks, strobes, signals, thrown, released,
                 inflight, completed, nextId, callsLeft>>

\* the wake-up nibble's strobe ends: Q.delay(30), then e.writeSync(0), lines
\* 302-304; init's chain waits for it
InitStrobe ==
  /\ initPc \in {2, 4, 6, 8}
  /\ \E k \in FaultAt(1) :
       /\ bus' = bus \o Cut(<< <<"e", 0, 0>> >>, k)
       /\ faultsLeft' = IF k = 0 THEN faultsLeft ELSE faultsLeft - 1
       /\ faulted' = IF k = 0 THEN faulted ELSE Append(faulted, 0)
       /\ initPc' = IF k = 0 THEN initPc + 1 ELSE InitFailed
  /\ UNCHANGED <<sent, calls, rows, largeFont, displayControl,
                 displayMode, asyncOps, tasks, strobes, initLog, signals, thrown,
                 released, inflight, completed, nextId, callsLeft>>

\* lines 84-98: the bytes of the chain's five commands
InitCommandBytes ==
  <<DisplayFunction, FunctionSecondary, displayControl, displayMode, CLEAR_DISPLAY>>

RECURSIVE Flatten(_)
Flatten(ss) == IF ss = <<>> THEN <<>> ELSE Head(ss) \o Flatten(Tail(ss))

\* the five .then(() => this._command(...)), lines 84-98: _command returns
\* nothing, so no step waits for a strobe and all run in the turn in which the
\* last wake-up nibble's promise settled.  The k-th write of command j throws
\* (j = 0: none), which rejects the chain.
InitCommands ==
  /\ initPc = 9
  /\ \E j \in (IF faultsLeft > 0 THEN 0 .. Len(InitCommandBytes) ELSE {0}) :
     \E k \in (IF j = 0 THEN {0} ELSE FaultAt(SendLen) \ {0}) :
       LET n == IF j = 0 THEN Len(InitCommandBytes) ELSE j - 1
           whole == [i \in 1 .. n |-> SendSync(InitCommandBytes[i], 0, 0)]
           ws == Flatten(whole)
                   \o (IF j = 0 THEN <<>> ELSE Cut(SendSync(InitCommandBytes[j], 0, 0), k))
       IN  /\ bus' = bus \o ws
           /\ strobes' = strobes \o Deferred(0, ws)
           /\ sent' = sent \o [i \in 1 .. n |-> <<0, 0, InitCommandBytes[i]>>]
           /\ initLog' = initLog \o [i \in 1 .. n |-> <<"cmd", InitCommandBytes[i]>>]
           /\ faultsLeft' = IF j = 0 THEN faultsLeft ELSE faultsLeft - 1
           /\ faulted' = IF j = 0 THEN faulted ELSE Append(faulted, 0)
           /\ initPc' = IF j = 0 THEN 14 ELSE InitFailed
  /\ UNCHANGED <<rows, largeFont, displayControl, displayMode, asyncOps, tasks,
                 calls, signals, thrown, released, inflight, completed,
                 nextId, callsLeft>>

\* init's end were it to emit the clear signal as the public clear() does
InitReadyByClear ==
  /\ initPc = 14
  /\ initPc' = InitDone
  /\ initLog' = initLog \o << <<"delay", SettleDelay>>, <<"ready", 0>> >>
  /\ signals' = signals \o << <<0, "clear", <<>>>>, <<0, "ready", <<>>>> >>
  /\ UNCHANGED <<sent, calls, faulted, rows, largeFont, displayControl, displayMode, asyncOps, tasks,
                 strobes, bus, thrown, released, inflight, completed, nextId, callsLeft, faultsLeft>>

\* .delay(3).then(() => this.emit('ready')), lines 99-100
InitReady ==
  /\ initPc = 14
  /\ initPc' = InitDone
  /\ initLog' = initLog \o << <<"delay", SettleDelay>>, <<"ready", 0>> >>
  /\ signals' = Append(signals, <<0, "ready", <<>>>>)
  /\ UNCHANGED <<sent, calls, faulted, rows, largeFont, displayControl, displayMode, asyncOps, tasks,
                 strobes, bus, thrown, released, inflight, completed, nextId, callsLeft, faultsLeft>>

\* deferred strobes end: the oldest pending Q.delay(30)s fire and each drives
\* E low, lines 302-304.  A throw in one of them (the k-th) rejects a promise
\* nobody holds; the others still run.
StrobeLow ==
  /\ strobes # <<>>
  /\ LET by == Head(strobes)[1]
         n == Head(strobes)[2]
     IN  \E k \in (IF faultsLeft > 0 THEN 0 .. n ELSE {0}) :
           /\ bus' = bus \o Repeat(<<"e", 0, by>>, IF k = 0 THEN n ELSE n - 1)
           /\ faultsLeft' = IF k = 0 THEN faultsLeft ELSE faultsLeft - 1
           /\ faulted' = IF k = 0 THEN faulted ELSE Append(faulted, by)
  /\ strobes' = Tail(strobes)
  /\ UNCHANGED <<sent, calls, rows, largeFont, displayControl,
                 displayMode, asyncOps, tasks, initPc, initLog, signals, thrown,
                 released, inflight, completed, nextId, callsLeft>>

\* the record of a public call: its id, the method, its argument, the
\* operations in flight and the registers when it was made
Call(name, arg) ==
  [id |-> nextId, name |-> name, arg |-> arg, during |-> inflight,
   regs |-> <<displayControl, displayMode>>]

(* --------------------------- operation queue --------------------------- *)
\* A queued operation is [id, kind, str, cb]: kind is "print", "clear" or
\* "home", str the text (a sequence of character codes), cb whether the caller
\* gave a callback.  A task is [op, at, index]: the operation's pending
\* callback, at "tick" (setImmediate) or at "timeout" (setTimeout).

\* lines 113-114
StartIndex(len) ==
  LET displayFills == len \div FillWidth
  IN  IF displayFills > 1 THEN (displayFills - 1) * FillWidth ELSE 0

\* what calling the operation's function schedules: lines 104-117, 149-152, 156-159
StartOf(op) ==
  [op |-> op, at |-> "tick",
   index |-> IF op.kind = "print" THEN StartIndex(Len(op.str)) ELSE 0]

ShouldStartAlways(len) == len >= 1

\* line 237
ShouldStart(len) == len = 1

\* _queueAsyncOperation, lines 234-247: push, and run asyncOps[0] when the new
\* operation is the only one
Enqueue(op) ==
  LET ops == Append(asyncOps, op)
  IN  /\ asyncOps' = ops
      /\ IF ShouldStart(Len(ops))
           THEN /\ tasks' = Append(tasks, StartOf(ops[1]))
                /\ inflight' = Append(inflight, ops[1].id)
           ELSE UNCHANGED <<tasks, inflight>>

RemoveOne(s, x) ==
  IF \E i \in 1 .. Len(s) : s[i] = x
    THEN RemoveAt(s, CHOOSE i \in 1 .. Len(s) : s[i] = x /\ \A j \in 1 .. i - 1 : s[j] # x)
    ELSE s

\* the callback the queue hands to an operation, lines 239-244, called by the
\* task at position i, which either ends (rest = <<>>) or goes on as rest
Advance(i, rest) ==
  LET ops == IF asyncOps = <<>> THEN <<>> ELSE Tail(asyncOps)
      id == tasks[i].op.id
  IN  /\ asyncOps' = ops
      /\ completed' = Append(completed, id)
      /\ IF Len(ops) # 0
           THEN /\ tasks' = Append(RemoveAt(tasks, i) \o rest, StartOf(ops[1]))
                /\ inflight' = Append(RemoveOne(inflight, id), ops[1].id)
           ELSE /\ tasks' = RemoveAt(tasks, i) \o rest
                /\ inflight' = RemoveOne(inflight, id)

\* the task goes on without calling the queue back
Continue(i, rest) ==
  /\ tasks' = RemoveAt(tasks, i) \o rest
  /\ UNCHANGED <<asyncOps, inflight, completed>>

\* cb ? cb(...) : this.emit(...), lines 124-128, 137-141, 255-259, 265-269
Report(op, viaCb, viaEvent) ==
  IF op.cb THEN <<op.id, viaCb, op.str>> ELSE <<op.id, viaEvent, op.str>>

\* the texts printed: "", "A", "AB", ...; every character of a text differs
\* from the others (up to 256 characters)
Text(n) == [i \in 1 .. n |-> (64 + i) % 256]
Texts == {Text(n) : n \in 0 .. MaxLen}

\* the texts whose length is at, just below or just above a number of fills
FillLens ==
  {n \in 0 .. MaxFills * FillWidth + 1 :
     \E f \in 0 .. MaxFills : n \in {f * FillWidth - 1, f * FillWidth, f * FillWidth + 1}}
FillTexts == {Text(n) : n \in FillLens}

\* print(val, cb), lines 103-118, with val one of texts
PrintCall(texts) ==
  /\ callsLeft > 0
  /\ \E str \in texts, cb \in BOOLEAN :
       /\ Enqueue([id |-> nextId, kind |-> "print", str |-> str, cb |-> cb])
       /\ calls' = Append(calls, Call("print", str))
  /\ nextId' = nextId + 1
  /\ callsLeft' = callsLeft - 1
  /\ UNCHANGED <<sent, faulted, rows, largeFont, displayControl, displayMode, strobes, initPc, bus,
                 initLog, signals, thrown, released, completed, faultsLeft>>

\* print of a short text
print == PrintCall(Texts)

\* print of a text that fills the display
printFill == PrintCall(FillTexts)

\* clear(cb), lines 148-153
clear ==
  /\ callsLeft > 0
  /\ \E cb \in BOOLEAN :
       Enqueue([id |-> nextId, kind |-> "clear", str |-> <<>>, cb |-> cb])
  /\ calls' = Append(calls, Call("clear", <<>>))
  /\ nextId' = nextId + 1
  /\ callsLeft' = callsLeft - 1
  /\ UNCHANGED <<sent, faulted, rows, largeFont, displayControl, displayMode, strobes, initPc, bus,
                 initLog, signals, thrown, released, completed, faultsLeft>>

\* home(cb), lines 155-160
home ==
  /\ callsLeft > 0
  /\ \E cb \in BOOLEAN :
       Enqueue([id |-> nextId, kind |-> "home", str |-> <<>>, cb |-> cb])
  /\ calls' = Append(calls, Call("home", <<>>))
  /\ nextId' = nextId + 1
  /\ callsLeft' = callsLeft - 1
  /\ UNCHANGED <<sent, faulted, rows, largeFont, displayControl, displayMode, strobes, initPc, bus,
                 initLog, signals, thrown, released, completed, faultsLeft>>

\* line 123
PrintDone(index, len) == index >= len

\* the callback _printChar hands to tick, lines 122-145
PrintCharTick ==
  \E i \in 1 .. Len(tasks) :
    LET t == tasks[i]
        op == t.op
    IN  /\ op.kind = "print"
        /\ t.at = "tick"
        /\ IF PrintDone(t.index, Len(op.str))
             THEN /\ signals' = Append(signals, Report(op, "cb", "printed"))
                  /\ Advance(i, <<>>)
                  /\ UNCHANGED <<bus, strobes, sent, faultsLeft, faulted>>
             ELSE \E k \in FaultAt(SendLen) :
                    /\ Send(op.str[t.index + 1], 1, op.id, k)
                    /\ IF k = 0
                         THEN /\ Continue(i, << [t EXCEPT !.index = t.index + 1] >>)
                              /\ UNCHANGED signals
                         ELSE /\ signals' = Append(signals, Report(op, "cberr", "error"))
                              /\ Advance(i, <<>>)
        /\ UNCHANGED <<calls, rows, largeFont, displayControl, displayMode, initPc, initLog,
                       thrown, released, nextId, callsLeft>>

\* the command clear and home send: lines 151, 158
CommandOf(op) == IF op.kind = "clear" THEN CLEAR_DISPLAY ELSE HOME

\* the callback _commandAndDelay hands to tick, lines 251-273
CommandTick ==
  \E i \in 1 .. Len(tasks) :
    LET t == tasks[i]
        op == t.op
    IN  /\ op.kind \in {"clear", "home"}
        /\ t.at = "tick"
        /\ \E k \in FaultAt(SendLen) :
             /\ Send(CommandOf(op), 0, op.id, k)
             /\ IF k = 0
                  THEN /\ Continue(i, << [t EXCEPT !.at = "timeout"] >>)
                       /\ UNCHANGED signals
                  ELSE /\ signals' = Append(signals, Report(op, "cberr", "error"))
                       /\ Advance(i, <<>>)
        /\ UNCHANGED <<calls, rows, largeFont, displayControl, displayMode, initPc, initLog,
                       thrown, released, nextId, callsLeft>>

\* the callback _commandAndDelay hands to setTimeout, lines 264-272
CommandTimeout ==
  \E i \in 1 .. Len(tasks) :
    LET t == tasks[i]
        op == t.op
    IN  /\ t.at = "timeout"
        /\ signals' = Append(signals, Report(op, "cb", op.kind))
        /\ Advance(i, <<>>)
        /\ UNCHANGED <<sent, calls, faulted, rows, largeFont, displayControl, displayMode, strobes, initPc,
                       bus, initLog, thrown, released, nextId, callsLeft, faultsLeft>>

(* ------------------------ unqueued operations -------------------------- *)
\* _command(cmd) called straight from a public method, lines 277 and 283-287:
\* the writes happen in the caller's turn and a pin fault is thrown at the caller
Command(name, arg, cmd) ==
  /\ callsLeft > 0
  /\ \E k \in FaultAt(SendLen) :
       /\ Send(cmd, 0, nextId, k)
       /\ thrown' = IF k = 0 THEN thrown ELSE Append(thrown, <<nextId, "PinFault">>)
  /\ calls' = Append(calls, Call(name, arg))
  /\ nextId' = nextId + 1
  /\ callsLeft' = callsLeft - 1
  /\ UNCHANGED <<rows, largeFont, asyncOps, tasks, initPc, initLog, signals,
                 released, inflight, completed>>

\* line 163
EffectiveRow(row) == IF row > rows THEN rows - 1 ELSE row

\* line 165: __ROW_OFFSETS[r] is undefined outside 0..3, the sum is then NaN and
\* SET_CURSOR | NaN is SET_CURSOR
SetCursorByte(col, row) ==
  LET r == EffectiveRow(row)
  IN  IF r \in 0 .. Len(ROW_OFFSETS) - 1
        THEN BitOr(SET_CURSOR, col + ROW_OFFSETS[r + 1])
        ELSE BitOr(SET_CURSOR, 0)

\* setCursor(col, row), lines 162-166
setCursor ==
  /\ \E col \in 0 .. MaxCol, row \in 0 .. MaxRow :
       Command("setCursor", <<col, row>>, SetCursorByte(col, row))
  /\ UNCHANGED <<displayControl, displayMode>>

\* display were it to add DISPLAY_ON to the register
displayAdds ==
  /\ displayControl' = displayControl + DISPLAY_ON
  /\ Command("display", <<>>, displayControl')
  /\ UNCHANGED displayMode

\* lines 168-171
display ==
  /\ displayControl' = BitOr(displayControl, DISPLAY_ON)
  /\ Command("display", <<>>, displayControl')
  /\ UNCHANGED displayMode

\* noDisplay were it to flip the display bit
noDisplayFlip ==
  /\ displayControl' = IF BitAnd(displayControl, DISPLAY_ON) = 0
                         THEN BitOr(displayControl, DISPLAY_ON)
                         ELSE BitAnd(displayControl, DISPLAY_OFF)
  /\ Command("noDisplay", <<>>, displayControl')
  /\ UNCHANGED displayMode

\* lines 173-176
noDisplay ==
  /\ displayControl' = BitAnd(displayControl, DISPLAY_OFF)
  /\ Command("noDisplay", <<>>, displayControl')
  /\ UNCHANGED displayMode

\* lines 178-181
cursor ==
  /\ displayControl' = BitOr(displayControl, CURSOR_ON)
  /\ Command("cursor", <<>>, displayControl')
  /\ UNCHANGED displayMode

\* noCursor were it to clear the blink bit with the cursor bit
noCursorWide ==
  /\ displayControl' = BitAnd(displayControl, BitAnd(CURSOR_OFF, BLINK_OFF))
  /\ Command("noCursor", <<>>, displayControl')
  /\ UNCHANGED displayMode

\* lines 183-186
noCursor ==
  /\ displayControl' = BitAnd(displayControl, CURSOR_OFF)
  /\ Command("noCursor", <<>>, displayControl')
  /\ UNCHANGED displayMode

\* lines 188-191
blink ==
  /\ displayControl' = BitOr(displayControl, BLINK_ON)
  /\ Command("blink", <<>>, displayControl')
  /\ UNCHANGED displayMode

\* lines 193-196
noBlink ==
  /\ displayControl' = BitAnd(displayControl, BLINK_OFF)
  /\ Command("noBlink", <<>>, displayControl')
  /\ UNCHANGED displayMode

\* line 198
scrollDisplayLeft ==
  /\ Command("scrollDisplayLeft", <<>>, SCROLL_LEFT)
  /\ UNCHANGED <<displayControl, displayMode>>

\* line 200
scrollDisplayRight ==
  /\ Command("scrollDisplayRight", <<>>, SCROLL_RIGHT)
  /\ UNCHANGED <<displayControl, displayMode>>

\* lines 202-205
leftToRight ==
  /\ displayMode' = BitOr(displayMode, LEFT_TO_RIGHT)
  /\ Command("leftToRight", <<>>, displayMode')
  /\ UNCHANGED displayControl

\* rightToLeft were it to OR the negative mask into the register
rightToLeftOrs ==
  /\ displayMode' = BitOr(displayMode, RIGHT_TO_LEFT)
  /\ Command("rightToLeft", <<>>, displayMode')
  /\ UNCHANGED displayControl

\* lines 207-210
rightToLeft ==
  /\ displayMode' = BitAnd(displayMode, RIGHT_TO_LEFT)
  /\ Command("rightToLeft", <<>>, displayMode')
  /\ UNCHANGED displayControl

\* lines 212-215
autoscroll ==
  /\ displayMode' = BitOr(displayMode, AUTOSCROLL_ON)
  /\ Command("autoscroll", <<>>, displayMode')
  /\ UNCHANGED displayControl

\* lines 217-220
noAutoscroll ==
  /\ displayMode' = BitAnd(displayMode, AUTOSCROLL_OFF)
  /\ Command("noAutoscroll", <<>>, displayMode')
  /\ UNCHANGED displayControl

\* close(), lines 222-231: unexport rs, e and every data pin
close ==
  /\ callsLeft > 0
  /\ released' = [p \in Pins |-> released[p] + 1]
  /\ calls' = Append(calls, Call("close", <<>>))
  /\ nextId' = nextId + 1
  /\ callsLeft' = callsLeft - 1
  /\ UNCHANGED <<rows, largeFont, displayControl, displayMode, asyncOps, tasks,
                 strobes, initPc, bus, sent, faulted, initLog, signals, thrown,
                 inflight, completed, faultsLeft>>

(* --------------------------- specification ----------------------------- *)
\* the queue: print, clear, home and the callbacks they schedule
NextQueue ==
  \/ StrobeLow
  \/ print \/ clear \/ home \/ PrintCharTick \/ CommandTick \/ CommandTimeout

\* every public method of the first generation
NextReady ==
  \/ NextQueue
  \/ setCursor \/ display \/ noDisplay \/ cursor \/ noCursor \/ blink \/ noBlink
  \/ scrollDisplayLeft \/ scrollDisplayRight
  \/ leftToRight \/ rightToLeft \/ autoscroll \/ noAutoscroll
  \/ close

Next ==
  \/ InitNibble \/ InitStrobe \/ InitCommands \/ InitReady
  \/ NextReady

\* the controller from its construction on
Spec == Init /\ [][Next]_vars

\* The controller once init has run undisturbed and its strobes have ended:
\* the state Spec reaches by InitNibble .. InitReady and StrobeLow alone.
ReadyBus ==
  Flatten([n \in 1 .. Len(InitNibbles) |->
             Write4BitsSync(InitNibbles[n], 0) \o << <<"e", 0, 0>> >>])
    \o Flatten([i \in 1 .. Len(InitCommandBytes) |-> SendSync(InitCommandBytes[i], 0, 0)])
    \o Repeat(<<"e", 0, 0>>, 2 * Len(InitCommandBytes))

ReadyLog ==
  Flatten([n \in 1 .. Len(InitNibbles) |->
             << <<"delay", InitDelays[n]>>, <<"nibble", InitNibbles[n]>> >>])
    \o [i \in 1 .. Len(InitCommandBytes) |-> <<"cmd", InitCommandBytes[i]>>]
    \o << <<"delay", SettleDelay>>, <<"ready", 0>> >>

AtReady ==
  /\ displayControl = DisplayControlDefault
  /\ displayMode = DisplayModeDefault
  /\ asyncOps = <<>>
  /\ tasks = <<>>
  /\ strobes = <<>>
  /\ initPc = InitDone
  /\ bus = ReadyBus
  /\ sent = [i \in 1 .. Len(InitCommandBytes) |-> <<0, 0, InitCommandBytes[i]>>]
  /\ calls = <<>>
  /\ faulted = <<>>
  /\ initLog = ReadyLog
  /\ signals = << <<0, "ready", <<>>>> >>
  /\ thrown = <<>>
  /\ released = [p \in Pins |-> 0]
  /\ inflight = <<>>
  /\ completed = <<>>
  /\ nextId = 1

InitAtReady ==
  /\ rows \in 1 .. ReadyRows
  /\ largeFont = FALSE
  /\ AtReady
  /\ callsLeft = MaxCalls
  /\ faultsLeft = MaxFaults

\* the ready controller, every public method
SpecReady == InitAtReady /\ [][NextReady]_vars

InitQueue ==
  /\ rows = 1
  /\ largeFont = FALSE
  /\ AtReady
  /\ callsLeft = MaxQueueCalls
  /\ faultsLeft = MaxFaults

\* the ready controller, the queued methods only
SpecQueue == InitQueue /\ [][NextQueue]_vars

(* ------------------ second generation: print ---------------------------- *)
\* str.charCodeAt(index) as _write4Bits uses it, line 422 with 509-510 and
\* 521-522: past the end of str it is NaN, and NaN >> 4 and NaN & 1 are 0
CharCode(str, index) == IF index < Len(str) THEN str[index + 1] ELSE 0

\* print(val) of the second generation, lines 409-419, through _printChar
\* (422), _write (504) and _send (507-511).  _send writes RS and chains the two
\* nibbles on the pin's thenable, but returns nothing: _printChar's .then on
\* that result throws a TypeError at the caller, and the character after this
\* one is never asked for.  The chain itself goes on: the high nibble's data
\* lines and E high are written as the promise queue drains (lines 514-527).
\* A pending nibble is the task [op, at, index] with at "high" or "low".
print2 ==
  /\ callsLeft > 0
  /\ \E str \in FillTexts :
       LET index == StartIndex(Len(str))
           val == CharCode(str, index)
           op == [id |-> nextId, kind |-> "print2", str |-> str, cb |-> FALSE]
           ws == << <<"rs", 1, nextId>> >> \o Write4BitsSync(Shr(val, 4), nextId)
       IN  \E k \in FaultAt(Len(ws)) :
             /\ bus' = bus \o Cut(ws, k)
             /\ faultsLeft' = IF k = 0 THEN faultsLeft ELSE faultsLeft - 1
             /\ faulted' = IF k = 0 THEN faulted ELSE Append(faulted, nextId)
             /\ thrown' = Append(thrown, <<nextId, IF k = 1 THEN "PinFault" ELSE "TypeError">>)
             /\ tasks' = IF k = 0
                           THEN Append(tasks, [op |-> op, at |-> "high", index |-> index])
                           ELSE tasks
             /\ calls' = Append(calls, Call("print2", str))
  /\ nextId' = nextId + 1
  /\ callsLeft' = callsLeft - 1
  /\ UNCHANGED <<rows, largeFont, displayControl, displayMode, asyncOps, strobes, initPc,
                 sent, initLog, signals, released, inflight, completed>>

\* delay(30) of the second generation's _write4Bits expires, lines 528-529: E
\* goes low; after the high nibble the chain of _send goes on with the low
\* nibble (line 510, lines 514-527), after the low nibble it ends.  A throw
\* rejects the chain, which nobody holds.
Strobe2 ==
  \E i \in 1 .. Len(tasks) :
    LET t == tasks[i]
        op == t.op
        val == CharCode(op.str, t.index)
        low == << <<"e", 0, op.id>> >>
        ws == IF t.at = "high" THEN low \o Write4BitsSync(val, op.id) ELSE low
    IN  /\ op.kind = "print2"
        /\ \E k \in FaultAt(Len(ws)) :
             /\ bus' = bus \o Cut(ws, k)
             /\ faultsLeft' = IF k = 0 THEN faultsLeft ELSE faultsLeft - 1
             /\ faulted' = IF k = 0 THEN faulted ELSE Append(faulted, op.id)
             /\ sent' = IF k = 0 /\ t.at = "high" THEN Append(sent, <<op.id, 1, val>>) ELSE sent
             /\ tasks' = IF k = 0 /\ t.at = "high"
                           THEN RemoveAt(tasks, i) \o << [t EXCEPT !.at = "low"] >>
                           ELSE RemoveAt(tasks, i)
        /\ UNCHANGED <<rows, largeFont, displayControl, displayMode, asyncOps, strobes, initPc,
                       calls, initLog, signals, thrown, released, inflight, completed,
                       nextId, callsLeft>>

\* The strobes of a first-generation print end once its ticks have run: the
\* ticks are setImmediate callbacks, the releases wait 30 ms.  A release
\* changes the bus alone and no tick reads the bus, so the bytes a print
\* transmits are those of every other order too.
StrobeLowAfterTicks == tasks = <<>> /\ StrobeLow

\* one print of a text that fills the display, by either generation
NextPrint ==
  \/ StrobeLowAfterTicks \/ printFill \/ PrintCharTick
  \/ print2 \/ Strobe2

InitPrint ==
  /\ rows = 1
  /\ largeFont = FALSE
  /\ AtReady
  /\ callsLeft = 1
  /\ faultsLeft = 0

\* the ready controller, one print of a long text
SpecPrint == InitPrint /\ [][NextPrint]_vars

\* the flag methods: the ten that set or clear a bit of a register
NextFlags ==
  \/ StrobeLow
  \/ display \/ noDisplay \/ cursor \/ noCursor \/ blink \/ noBlink
  \/ leftToRight \/ rightToLeft \/ autoscroll \/ noAutoscroll

InitFlags ==
  /\ rows = 1
  /\ largeFont = FALSE
  /\ AtReady
  /\ callsLeft = MaxFlagCalls
  /\ faultsLeft = MaxFaults

\* the ready controller, the flag methods only
SpecFlags == InitFlags /\ [][NextFlags]_vars

NotAtReady == ~(AtReady /\ callsLeft = MaxBootCalls)

(* ------------------------------ claims --------------------------------- *)
QueuedNames == {"print", "clear", "home"}
Queued(id) == id \in 1 .. Len(calls) /\ calls[id].name \in QueuedNames
Direct(id) == id \in 1 .. Len(calls) /\ calls[id].name \notin QueuedNames \cup {"close"}
Wrote(id) == \E i \in 1 .. Len(bus) : bus[i][3] = id
Completed(id) == \E i \in 1 .. Len(completed) : completed[i] = id

\* C1: in every step in which a queued operation (print, clear, home) makes
\* its first GPIO write, that operation is the only one in flight: no other
\* operation has been started and not yet called the queue back.
C1_OneInFlight ==
  [][\A i \in Len(bus) + 1 .. Len(bus') :
       LET b == bus'[i][3]
       IN  (/\ b \in 1 .. Len(calls')
            /\ calls'[b].name \in QueuedNames
            /\ \A j \in 1 .. i - 1 : bus'[j][3] # b)
           => inflight = <<b>>]_vars

\* C1 witness: an operation submitted while another was in flight has written
\* to the bus.
C1_Witness ==
  \E b \in 1 .. Len(calls) : Queued(b) /\ calls[b].during # <<>> /\ Wrote(b)

\* C2: for queued operations A submitted before B, once B has written to the
\* bus A has called the queue back and no write of A follows a write of B.
C2_SubmissionOrder ==
  \A a, b \in 1 .. Len(calls) :
    (Queued(a) /\ Queued(b) /\ a < b /\ Wrote(b))
      => /\ Completed(a)
         /\ \A i, j \in 1 .. Len(bus) : (bus[i][3] = b /\ bus[j][3] = a) => j < i

\* C3: a setCursor, flag or scroll call made while a queued operation is in
\* flight writes nothing to the bus before that operation has completed.
C3_AllQueued ==
  \A d \in 1 .. Len(calls) :
    (Direct(d) /\ Wrote(d))
      => \A n \in 1 .. Len(calls[d].during) : Completed(calls[d].during[n])

\* C4: no public operation writes to the bus before init has completed.
C4_NothingBeforeReady ==
  initPc # InitDone => \A i \in 1 .. Len(bus) : bus[i][3] = 0

\* what C5 expects init to issue
ExpectedInitLog ==
  << <<"delay", 16>>, <<"nibble", 3>>, <<"delay", 6>>, <<"nibble", 3>>,
     <<"delay", 2>>, <<"nibble", 3>>, <<"delay", 2>>, <<"nibble", 2>>,
     <<"cmd", BitOr(BitOr(32, IF rows > 1 THEN 8 ELSE 0),
                    IF rows = 1 /\ largeFont THEN 4 ELSE 0)>>,
     <<"cmd", 16>>, <<"cmd", 12>>, <<"cmd", 6>>, <<"cmd", 1>>,
     <<"delay", 3>>, <<"ready", 0>> >>

\* C5: what init has issued is always the beginning of: the four wake-up
\* nibbles 3, 3, 3, 2, each after its delay, then the commands function-set,
\* 0x10, 0x0c, 0x06 and 0x01; and all of it once init is done.
C5_InitSequence ==
  /\ Len(initLog) <= Len(ExpectedInitLog)
  /\ initLog = SubSeq(ExpectedInitLog, 1, Len(initLog))
  /\ initPc = InitDone => initLog = ExpectedInitLog

\* the error reports an operation's caller has received
Errors(id) ==
  Cardinality({i \in 1 .. Len(signals) :
                 signals[i][1] = id /\ signals[i][2] \in {"cberr", "error"}})

\* C6: a queued operation one of whose GPIO writes has failed has reported the
\* failure to its caller exactly once and has left the queue.
C6_FailureReported ==
  \A n \in 1 .. Len(faulted) :
    Queued(faulted[n])
      => /\ Errors(faulted[n]) = 1
         /\ Completed(faulted[n])
         /\ \A i \in 1 .. Len(asyncOps) : asyncOps[i].id # faulted[n]

\* C7: a setCursor(col, row) with row > rows - 1 sends 0x80 | (col + the offset
\* of row rows - 1).
C7_RowClamped ==
  \A c \in 1 .. Len(calls) :
    (calls[c].name = "setCursor" /\ calls[c].arg[2] > rows - 1)
      => \A i \in 1 .. Len(sent) :
           sent[i][1] = c => sent[i][3] = BitOr(128, calls[c].arg[1] + ROW_OFFSETS[rows])

PrintNames == {"print", "print2"}
DataOf(id) == SelectSeq(sent, LAMBDA b : b[1] = id)
ClaimedStart(L) == IF L \div 80 > 1 THEN (L \div 80 - 1) * 80 ELSE 0
ClaimedData(t) == SubSeq(t, ClaimedStart(Len(t)) + 1, Len(t))
Finished(id) ==
  IF calls[id].name = "print" THEN Completed(id)
  ELSE \A i \in 1 .. Len(tasks) : tasks[i].op.id # id
Transmits(id) ==
  LET d == DataOf(id)
      t == ClaimedData(calls[id].arg)
  IN  /\ \A i \in 1 .. Len(d) : d[i][2] = 1
      /\ Len(d) <= Len(t)
      /\ \A i \in 1 .. Len(d) : d[i][3] = t[i]
      /\ Finished(id) => Len(d) = Len(t)

\* C8: a print of the text t of length L transmits the characters
\* t[start .. L-1], each once, in order and in Data mode, where start is
\* (floor(L/80)-1)*80 if floor(L/80) > 1 and 0 otherwise: what it has sent is
\* always a beginning of that run, and all of it once the print has ended.
\* Stated of the print of both generations.
C8_PrintTransmits ==
  \A c \in 1 .. Len(calls) : calls[c].name \in PrintNames => Transmits(c)

\* the same of the first generation's print alone, which no pin fault disturbs
FirstGenerationTransmits ==
  \A c \in 1 .. Len(calls) : calls[c].name = "print" => Transmits(c)

\* a first-generation print of 161 characters has ended
FirstGenerationWitness ==
  \E c \in 1 .. Len(calls) :
    calls[c].name = "print" /\ Len(calls[c].arg) = 2 * 80 + 1 /\ Completed(c)

\* C9: no pin is released more than once, and once close() has been called
\* every pin has been released.
C9_ReleasedOnce ==
  /\ \A p \in Pins : released[p] <= 1
  /\ (\E c \in 1 .. Len(calls) : calls[c].name = "close") => \A p \in Pins : released[p] = 1

\* C10: a call made after close() is rejected with NotReady and writes nothing
\* to the bus.
C10_NotReadyAfterClose ==
  \A c, d \in 1 .. Len(calls) :
    (calls[c].name = "close" /\ c < d)
      => /\ ~Wrote(d)
         /\ \E i \in 1 .. Len(thrown) : thrown[i] = <<d, "NotReady">>

\* C11: once close() has been called, no print, clear or home submitted
\* before it writes to a pin: no step after the close adds a write of theirs
\* to the bus.
C11_NoWriteAfterClose ==
  [][\A i \in Len(bus) + 1 .. Len(bus') :
       \A c \in 1 .. Len(calls) :
         calls[c].name = "close" => ~(Queued(bus'[i][3]) /\ bus'[i][3] < c)]_vars

\* the last command byte of the set S that _send has put on the bus whole
\* (-1 when there is none)
LastSent(S) ==
  LET at == {i \in 1 .. Len(sent) : sent[i][2] = 0 /\ sent[i][3] \in S}
  IN  IF at = {} THEN -1 ELSE sent[CHOOSE i \in at : \A j \in at : j <= i][3]
ControlBytes == 8 .. 15
ModeBytes == 4 .. 7

\* C12: once init has completed, displayControl is the last display-control
\* byte (0x08..0x0f) and displayMode the last entry-mode byte (0x04..0x07)
\* whose two nibbles were written to the bus, also when a write has failed
\* part-way.
C12_RegistersAreWritten ==
  initPc = InitDone
    => /\ displayControl = LastSent(ControlBytes)
       /\ displayMode = LastSent(ModeBytes)

FlagNames ==
  {"display", "noDisplay", "cursor", "noCursor", "blink", "noBlink",
   "leftToRight", "rightToLeft", "autoscroll", "noAutoscroll"}

\* C13: a flag method called straight after a call of the same method leaves
\* both registers as that first call left them: calling it twice in a row
\* yields what calling it once yields.
C13_Idempotent ==
  [][(/\ Len(calls') = Len(calls) + 1
      /\ Len(calls) >= 1
      /\ calls'[Len(calls')].name \in FlagNames
      /\ calls[Len(calls)].name = calls'[Len(calls')].name)
       => /\ displayControl' = displayControl
          /\ displayMode' = displayMode]_vars

\* C13 witness: a flag method that changed its register has been called again
\* straight after.
C13_Witness ==
  \E c \in 1 .. Len(calls) - 1 :
    /\ calls[c].name \in FlagNames
    /\ calls[c + 1].name = calls[c].name
    /\ calls[c + 1].regs # calls[c].regs

\* the registers once call c has returned
RegsAfter(c) == IF c < Len(calls) THEN calls[c + 1].regs ELSE <<displayControl, displayMode>>
DisplayBit(x) == (x \div 4) % 2
DisplayThenNoDisplay(c) ==
  c + 1 <= Len(calls) /\ calls[c].name = "display" /\ calls[c + 1].name = "noDisplay"

\* C14 as stated: display() then noDisplay() leaves displayControl's display
\* bit as it was before the display().
C14_RoundTrip ==
  \A c \in 1 .. Len(calls) :
    DisplayThenNoDisplay(c)
      => DisplayBit(RegsAfter(c + 1)[1]) = DisplayBit(calls[c].regs[1])

\* C14 amended: display() then noDisplay() leaves the display bit clear and
\* every other bit of displayControl as it was before the display(); the
\* bit is as before only if it was clear before.
C14_DisplayThenNoDisplay ==
  \A c \in 1 .. Len(calls) :
    DisplayThenNoDisplay(c)
      => LET before == calls[c].regs[1]
             after == RegsAfter(c + 1)[1]
         IN  /\ DisplayBit(after) = 0
             /\ after = before - 4 * DisplayBit(before)
             /\ (after = before) = (DisplayBit(before) = 0)

\* C14 witness: display() then noDisplay() has been called with the display
\* bit clear before, after a call that had it set.
C14_Witness ==
  \E c \in 2 .. Len(calls) :
    /\ DisplayThenNoDisplay(c)
    /\ DisplayBit(calls[c].regs[1]) = 0
    /\ DisplayBit(calls[c - 1].regs[1]) = 1

\* the pin writes made on behalf of id (0: init), in order
OwnBus(id) == SelectSeq(bus, LAMBDA w : w[3] = id)
Kind(w) ==
  IF w[1] = "rs" THEN "rs"
  ELSE IF w[1] = "e" THEN (IF w[2] = 1 THEN "e1" ELSE "e0")
  ELSE "d"
\* one byte as the claim orders it: RS; four data lines, E high, E low; four
\* data lines, E high, E low
FrameShape ==
  <<"rs", "d", "d", "d", "d", "e1", "e0", "d", "d", "d", "d", "e1", "e0">>
FramesInOrder(id) ==
  LET own == OwnBus(id)
  IN  \A i \in 1 .. Len(own) :
        own[i][1] = "rs"
          => \A n \in 1 .. Len(FrameShape) - 1 :
               (/\ i + n <= Len(own)
                /\ \A m \in 1 .. n : own[i + m][1] # "rs")
                 => Kind(own[i + n]) = FrameShape[n + 1]

\* C15: the pin writes of one sender follow, from each RS write on, the order
\* RS, the high nibble's four data lines, E high, E low, the low nibble's four
\* data lines, E high, E low: the low nibble is not driven before the high
\* nibble's strobe has ended.
C15_FrameOrder == \A id \in 0 .. Len(calls) : FramesInOrder(id)

\* the same of the second generation's print alone
SecondGenerationFrameOrder ==
  \A id \in 1 .. Len(calls) : calls[id].name = "print2" => FramesInOrder(id)

\* C16: while a clear or home waits out its settle delay (its setTimeout is
\* pending), no other operation writes to the bus: every write a step adds is
\* one of the waiting operation's own.
C16_BusOwnedThroughDelay ==
  [][\A t \in 1 .. Len(tasks) :
       tasks[t].at = "timeout"
         => \A i \in Len(bus) + 1 .. Len(bus') : bus'[i][3] = tasks[t].op.id]_vars

\* how often the print id has signalled its completion, with its text
Completions(id) ==
  Cardinality({i \in 1 .. Len(signals) :
                 /\ signals[i][1] = id
                 /\ signals[i][2] \in {"cb", "printed"}
                 /\ signals[i][3] = calls[id].arg})
Terminates(id) ==
  LET L == Len(calls[id].arg)
  IN  /\ Len(DataOf(id)) <= L - ClaimedStart(L)
      /\ Completions(id) <= 1
      /\ Finished(id) => Completions(id) = 1

\* C17: a print never sends a byte for an index at or beyond the length of its
\* text, signals its completion at most once, and has signalled it, with the
\* text, once it has ended.  Stated of the print of both generations.
C17_PrintTerminates ==
  \A c \in 1 .. Len(calls) : calls[c].name \in PrintNames => Terminates(c)

\* the same of the first generation's print alone, which no pin fault disturbs
FirstGenerationTerminates ==
  \A c \in 1 .. Len(calls) : calls[c].name = "print" => Terminates(c)

ReadyCount == Cardinality({i \in 1 .. Len(signals) : signals[i][2] = "ready"})

ControlMask(name) ==
  IF name \in {"display", "noDisplay"} THEN 4
  ELSE IF name \in {"cursor", "noCursor"} THEN 2
  ELSE IF name \in {"blink", "noBlink"} THEN 1
  ELSE 0
ModeMask(name) ==
  IF name \in {"leftToRight", "rightToLeft"} THEN 2
  ELSE IF name \in {"autoscroll", "noAutoscroll"} THEN 1
  ELSE 0
\* a and b differ at most in the bit m
SameOutside(a, b, m) ==
  IF m = 0 THEN a = b
  ELSE a - m * ((a \div m) % 2) = b - m * ((b \div m) % 2)

\* C19: a step that is a public call changes at most the called method's own
\* bit of its own register (none for clear, home, setCursor, the scroll
\* methods, print and close); every other step changes neither register.
C19_OwnBitOnly ==
  [][IF Len(calls') = Len(calls) + 1
       THEN LET name == calls'[Len(calls')].name
            IN  /\ SameOutside(displayControl', displayControl, ControlMask(name))
                /\ SameOutside(displayMode', displayMode, ModeMask(name))
       ELSE /\ displayControl' = displayControl
            /\ displayMode' = displayMode]_vars

\* C19 witness: a flag method has changed its register, and a method that is
\* not a flag method has been called after it.
C19_Witness ==
  \E c \in 1 .. Len(calls) - 1 :
    /\ calls[c].name \in FlagNames
    /\ calls[c + 1].regs # calls[c].regs
    /\ calls[c + 1].name \notin FlagNames

\* C20: displayControl stays in 0x08..0x0f and displayMode in 0x04..0x07, and
\* every byte a flag method has sent is a display-control command
\* (0x08..0x0f) or an entry-mode command (0x04..0x07), as its register is.
C20_RegistersInRange ==
  /\ displayControl \in 8 .. 15
  /\ displayMode \in 4 .. 7
  /\ \A i \in 1 .. Len(sent) :
       LET c == sent[i][1]
       IN  (c \in 1 .. Len(calls) /\ calls[c].name \in FlagNames)
             => /\ sent[i][2] = 0
                /\ ControlMask(calls[c].name) # 0 => sent[i][3] \in 8 .. 15
                /\ ModeMask(calls[c].name) # 0 => sent[i][3] \in 4 .. 7

\* C20 witness: three flag calls have left every flag bit of both registers
\* clear, the negative masks having cleared the display and the direction bit.
C20_Witness == displayControl = 8 /\ displayMode = 4 /\ Len(calls) = 3

====
